---- MODULE Spec2Model ----
(***************************************************************************)
(* Model of the Local Message Editor plugin                                *)
(* (src/plugins/template/src/index.ts).                                    *)
(*                                                                         *)
(* The plugin keeps a module-level map messageEdits (message id -> text),  *)
(* patches the host's MessageContent.render and openContextMenuLazy, and   *)
(* registers two debug functions on the global object.  The host calls     *)
(* into the plugin one event at a time (single UI thread): onLoad,         *)
(* onUnload, a render pass, openContextMenuLazy, the wrapped menu builder, *)
(* a menu action, a dialog confirmation, a debug function.                 *)
(*                                                                         *)
(* JavaScript strings are sequences of characters; an optional value       *)
(* (null / undefined or a value) is a sequence of length 0 or 1.           *)
(***************************************************************************)
EXTENDS Integers, Sequences, FiniteSets, TLC

\* ------------------------------------------------------------- bounds
\* Longest text typed into the dialog.
MaxTextLen == 2
\* Number of input dialogs open at once.
MaxDialogs == 2
\* Longest children array the original builder hands out again.
MaxMenuLen == 4

\* ------------------------------------------------------------- strings
\* The characters texts are made of: one printing character, one white space.
Chars == {"a", " "}

\* The characters String.prototype.trim strips.
WhiteSpace == {" "}

\* The texts typed into the dialog: white space around at most one printing
\* character (empty, blank, plain, padded on either side).
Texts ==
    {t \in UNION {[1..n -> Chars] : n \in 0..MaxTextLen} :
        Cardinality({i \in DOMAIN t : t[i] \notin WhiteSpace}) <= 1}

RECURSIVE TrimStart(_)
TrimStart(s) ==
    IF s # <<>> /\ Head(s) \in WhiteSpace THEN TrimStart(Tail(s)) ELSE s

RECURSIVE TrimEnd(_)
TrimEnd(s) ==
    IF s # <<>> /\ s[Len(s)] \in WhiteSpace
    THEN TrimEnd(SubSeq(s, 1, Len(s) - 1))
    ELSE s

\* newContent.trim()
Trim(s) == TrimEnd(TrimStart(s))

\* ------------------------------------------------------------- the host
\* The users that can be viewing the chat (props.currentUserId of the menu
\* builder, supplied by the host).
Viewers == {"u1", "u2"}

\* The host's message objects: m1 by u2, m2 by u3.
HostMessages ==
    [m \in {"m1", "m2"} |->
        [id |-> m,
         content |-> IF m = "m1" THEN <<"x">> ELSE <<"y">>,
         author |-> [id |-> IF m = "m1" THEN "u2" ELSE "u3"]]]

MsgIds == DOMAIN HostMessages

\* The host's own menu entries.
Reply == [id |-> "reply", label |-> "Reply"]
Copy == [id |-> "copy", label |-> "Copy Text"]

\* What the original menu builder returns in props.children: nothing
\* (undefined), one child, or an array of children.
OrigMenus ==
    { [kind |-> "none", items |-> <<>>],
      [kind |-> "single", items |-> <<Reply>>],
      [kind |-> "list", items |-> <<Reply, Copy>>] }

\* The undo-handles in use, named by the patch they undo.  onLoad runs only
\* while the plugin is disabled and onUnload invokes every stored handle, so
\* at most one handle of a kind is alive at a time.
Handles == {"render", "menu"}

VARIABLES
    messageEdits,        \* the override store: message id -> text (line 8)
    unpatchRender,       \* stored undo-handle of the render patch, or null (line 10)
    unpatchContextMenu,  \* stored undo-handle of the menu patch, or null (line 11)
    globalFns,           \* debug functions on the global object (lines 122-132)
    installed,           \* host: patches in place (lines 23, 44)
    undoCalls,           \* host: invocations of the latest handle of a kind (147, 152)
    active,              \* host: the plugin is enabled
    wrapped,             \* host: a wrapped menu builder, args[1], exists (line 48)
    messages,            \* host: the message objects
    closures,            \* host: the action closures of the menu on screen (58, 95)
    pending,             \* host: open input dialogs per message id (line 61)
    confirmed,           \* per id: the text last confirmed, entry unchanged since
    last                 \* the last event and what it returned or showed

vars == <<messageEdits, unpatchRender, unpatchContextMenu, globalFns, installed,
          undoCalls, active, wrapped, messages, closures, pending, confirmed,
          last>>

\* ------------------------------------------------------------- the store
EmptyStore == [k \in {} |-> <<>>]

\* Truthiness of messageEdits[id]: the key is there and its text is not "".
HasEdit(edits, id) == id \in DOMAIN edits /\ edits[id] # <<>>

\* messageEdits[id]: the text, or undefined
Get(edits, id) == IF id \in DOMAIN edits THEN <<edits[id]>> ELSE <<>>

\* delete messageEdits[id]
DeleteKey(edits, id) == [k \in DOMAIN edits \ {id} |-> edits[k]]

\* messageEdits[id] = text
SetKey(edits, id, text) ==
    [k \in DOMAIN edits \cup {id} |-> IF k = id THEN text ELSE edits[k]]

\* A clear that skips a key (deleting from the list it iterates).
ClearSkipsKey(edits) == [k \in DOMAIN edits \cap {"m2"} |-> edits[k]]

\* Object.keys(messageEdits).forEach(key => delete messageEdits[key])
ClearAll(edits) == EmptyStore

\* Object.keys(messageEdits).length
EditCount(edits) == Cardinality(DOMAIN edits)

\* ------------------------------------------------------------- onConfirm
\* A confirmation that tests newContent === "" without trimming.
OnConfirmNoTrim(edits, id, newContent) ==
    IF newContent = <<>>
    THEN DeleteKey(edits, id)
    ELSE SetKey(edits, id, newContent)

\* A confirmation that ignores a blank text.
OnConfirmIgnoresBlank(edits, id, newContent) ==
    IF Trim(newContent) = <<>>
    THEN edits
    ELSE SetKey(edits, id, newContent)

\* A confirmation that keeps an entry another callback wrote first.
OnConfirmFirstWins(edits, id, newContent) ==
    IF Trim(newContent) = <<>>
    THEN DeleteKey(edits, id)
    ELSE IF id \in DOMAIN edits THEN edits ELSE SetKey(edits, id, newContent)

\* A confirmation that stores the trimmed text.
OnConfirmStoresTrimmed(edits, id, newContent) ==
    IF Trim(newContent) = <<>>
    THEN DeleteKey(edits, id)
    ELSE SetKey(edits, id, Trim(newContent))

\* onConfirm: (newContent) => { if (newContent.trim() === "") delete ...;
\* else messageEdits[message.id] = newContent }
OnConfirm(edits, id, newContent) ==
    IF Trim(newContent) = <<>>
    THEN DeleteKey(edits, id)
    ELSE SetKey(edits, id, newContent)

\* A remove that empties the store.
RemoveClearsAll(edits, id) == EmptyStore

\* removeButton.action: delete messageEdits[message.id]
RemoveEdit(edits, id) == DeleteKey(edits, id)

\* ------------------------------------------------------------- render
\* this.props as the host hands it to render for message m ("none": props
\* without a message); the message is the host's own object.
HostProps(heap, m) ==
    [message |-> IF m = "none" THEN <<>> ELSE <<heap[m]>>, channelId |-> "c1"]

\* An interceptor that writes the override into the host's message object.
RenderPatchInPlace(props, heap, edits) ==
    IF props.message # <<>> /\ HasEdit(edits, props.message[1].id)
    THEN LET id == props.message[1].id
             h == [heap EXCEPT ![id].content = edits[id]]
         IN  [props |-> [props EXCEPT !.message = <<h[id]>>], heap |-> h]
    ELSE [props |-> props, heap |-> heap]

\* An interceptor that builds the new props and does not assign them.
RenderPatchNotAssigned(props, heap, edits) == [props |-> props, heap |-> heap]

\* The before("render") interceptor: this.props after it ran, and the host's
\* message objects after it ran.  The spread builds new objects, so the
\* host's objects are left as they were.  (message?.id is truthy for every
\* message of the host: ids are non-empty strings.)
RenderPatch(props, heap, edits) ==
    IF props.message # <<>> /\ HasEdit(edits, props.message[1].id)
    THEN [props |-> [props EXCEPT
                       !.message = <<[props.message[1] EXCEPT
                                        !.content = edits[props.message[1].id]]>>],
          heap |-> heap]
    ELSE [props |-> props, heap |-> heap]

\* A render patch is in place on MessageContent.prototype.
RenderInstalled == "render" \in installed

\* A menu patch is in place on openContextMenuLazy.
MenuInstalled == "menu" \in installed

\* ------------------------------------------------------------- the menu
\* props of the menu builder for message m, viewed by user cur.
MenuProps(heap, m, cur) ==
    [message |-> IF m = "none" THEN <<>> ELSE <<heap[m]>>,
     currentUserId |-> cur]

\* message && message.author?.id !== props.currentUserId
Offered(props) ==
    props.message # <<>> /\ props.message[1].author.id # props.currentUserId

EditButton(edits, id) ==
    [id |-> "edit-locally",
     label |-> IF HasEdit(edits, id) THEN "Edit Local Copy" ELSE "Edit Locally"]

\* removeButton, or null when the message has no override
RemoveButton(edits, id) ==
    IF HasEdit(edits, id)
    THEN <<[id |-> "remove-local-edit", label |-> "Remove Local Edit"]>>
    ELSE <<>>

\* originalMenu?.props?.children is truthy: one child or an array (an empty
\* array is truthy too).
HasChildren(orig) == orig.kind # "none"

\* A wrapper that offers the actions on the viewer's own messages too.
AugmentAnyAuthor(orig, props, edits) ==
    IF props.message # <<>> /\ HasChildren(orig)
    THEN [kind |-> "list",
          items |-> orig.items \o <<EditButton(edits, props.message[1].id)>>
                       \o RemoveButton(edits, props.message[1].id)]
    ELSE orig

\* The children of the menu the wrapper returns.
Augment(orig, props, edits) ==
    IF Offered(props) /\ HasChildren(orig)
    THEN [kind |-> "list",
          items |-> orig.items \o <<EditButton(edits, props.message[1].id)>>
                       \o RemoveButton(edits, props.message[1].id)]
    ELSE orig

\* The action closures the returned menu carries.
NoClosures == [msg |-> "none", remove |-> FALSE]

ClosuresOf(orig, props, edits) ==
    IF Offered(props) /\ HasChildren(orig)
    THEN [msg |-> props.message[1].id,
          remove |-> HasEdit(edits, props.message[1].id)]
    ELSE NoClosures

\* A pre-fill decided by what the store held when the menu was built.
CurrentEditAsBuilt(edits, message) ==
    IF closures.remove /\ HasEdit(edits, message.id)
    THEN edits[message.id]
    ELSE message.content

\* const currentEdit = messageEdits[message.id] || message.content
CurrentEdit(edits, message) ==
    IF HasEdit(edits, message.id) THEN edits[message.id] ELSE message.content

\* ------------------------------------------------------------- history
\* confirmed[id] after a step that turns the store into newEdits; cid and
\* text name the confirmation the step is, if it is one (cid = "none": not).
Since(newEdits, cid, text) ==
    [m \in MsgIds |->
        IF m = cid /\ Trim(text) # <<>> THEN <<text>>
        ELSE IF (m \in DOMAIN newEdits) = (m \in DOMAIN messageEdits)
                /\ (m \in DOMAIN newEdits => newEdits[m] = messageEdits[m])
             THEN confirmed[m]
             ELSE <<>>]

\* ------------------------------------------------------------- events
Init ==
    /\ messageEdits = EmptyStore
    /\ unpatchRender = <<>>
    /\ unpatchContextMenu = <<>>
    /\ globalFns = {}
    /\ installed = {}
    /\ undoCalls = [h \in Handles |-> 0]
    /\ active = FALSE
    /\ wrapped = FALSE
    /\ messages = HostMessages
    /\ closures = NoClosures
    /\ pending = [m \in MsgIds |-> 0]
    /\ confirmed = [m \in MsgIds |-> <<>>]
    /\ last = [op |-> "init"]

\* onLoad.  renderFound: the MessageContent component was found.  menuFound:
\* findByProps("openContextMenuLazy", "closeContextMenu") returned a module;
\* when it returns undefined, destructuring it throws, the catch logs the
\* error and the statements after it (the menu patch, the two debug
\* functions) are not run.
OnLoad(renderFound, menuFound) ==
    /\ ~active
    /\ active' = TRUE
    /\ unpatchRender' = IF renderFound THEN <<"render">> ELSE unpatchRender
    /\ unpatchContextMenu' = IF menuFound THEN <<"menu">> ELSE unpatchContextMenu
    /\ installed' = installed
                      \cup (IF renderFound THEN {"render"} ELSE {})
                      \cup (IF menuFound THEN {"menu"} ELSE {})
    /\ undoCalls' = [h \in Handles |->
                       IF (h = "render" /\ renderFound) \/ (h = "menu" /\ menuFound)
                       THEN 0
                       ELSE undoCalls[h]]
    /\ globalFns' = IF menuFound
                    THEN globalFns \cup {"showLocalEdits", "clearAllEdits"}
                    ELSE globalFns
    /\ last' = [op |-> "onLoad", renderFound |-> renderFound, menuFound |-> menuFound]
    /\ UNCHANGED <<messageEdits, wrapped, messages, closures, pending, confirmed>>

\* The undo-handles onUnload invokes: each stored one.
Invoked(render, menu) ==
    {render[i] : i \in DOMAIN render} \cup {menu[i] : i \in DOMAIN menu}

\* An unload that invokes a handle and keeps it stored.
KeepsHandle(handle) == handle

\* unpatchRender = null / unpatchContextMenu = null, after the handle (if
\* one is stored) was invoked
Nulled(handle) == <<>>

\* An unload that leaves the stored texts in place.
UnloadKeepsStore(edits) == edits

\* onUnload's last statement: every key of the store is deleted.
UnloadStore(edits) == ClearAll(edits)

\* onUnload
OnUnload ==
    /\ active' = FALSE
    /\ installed' = installed \ Invoked(unpatchRender, unpatchContextMenu)
    /\ undoCalls' = [h \in Handles |->
                       IF h \in Invoked(unpatchRender, unpatchContextMenu)
                       THEN undoCalls[h] + 1
                       ELSE undoCalls[h]]
    /\ unpatchRender' = Nulled(unpatchRender)
    /\ unpatchContextMenu' = Nulled(unpatchContextMenu)
    /\ globalFns' = globalFns \ {"showLocalEdits", "clearAllEdits"}
    /\ messageEdits' = UnloadStore(messageEdits)
    /\ confirmed' = Since(messageEdits', "none", <<>>)
    /\ last' = [op |-> "onUnload"]
    /\ UNCHANGED <<wrapped, messages, closures, pending>>

\* The host renders message m: it sets this.props, the interceptor (when in
\* place) runs, render reads this.props.
Render(m) ==
    /\ LET before == HostProps(messages, m)
           r == IF RenderInstalled
                THEN RenderPatch(before, messages, messageEdits)
                ELSE [props |-> before, heap |-> messages]
       IN  /\ messages' = r.heap
           /\ last' = [op |-> "render", id |-> m, hostProps |-> before,
                       props |-> r.props]
    /\ UNCHANGED <<messageEdits, unpatchRender, unpatchContextMenu, globalFns,
                   installed, undoCalls, active, wrapped, closures,
                   pending, confirmed>>

\* The host opens a context menu: the before("openContextMenuLazy") hook
\* replaces args[1] by the wrapper.
OpenContextMenuLazy ==
    /\ MenuInstalled
    /\ wrapped' = TRUE
    /\ last' = [op |-> "openContextMenuLazy"]
    /\ UNCHANGED <<messageEdits, unpatchRender, unpatchContextMenu, globalFns,
                   installed, undoCalls, active, messages, closures,
                   pending, confirmed>>

\* The host calls the wrapper with props for message m and viewer cur; the
\* original builder returns a menu with children orig.
MenuWrapper(m, cur, orig) ==
    /\ wrapped
    /\ LET props == MenuProps(messages, m, cur)
       IN  /\ closures' = ClosuresOf(orig, props, messageEdits)
           /\ last' = [op |-> "menu", id |-> m, props |-> props, orig |-> orig,
                       reused |-> FALSE,
                       menu |-> Augment(orig, props, messageEdits)]
    /\ UNCHANGED <<messageEdits, unpatchRender, unpatchContextMenu, globalFns,
                   installed, undoCalls, active, wrapped, messages,
                   pending, confirmed>>

\* The host calls the wrapper again and the original builder returns the
\* object it returned to the previous call (a menu or a children array it
\* keeps).  children.push and the assignment to originalMenu.props.children
\* changed that object in place, so what the builder returns now is the
\* previous call's result.
MenuWrapperReused(m, cur) ==
    /\ wrapped
    /\ last.op = "menu"
    /\ last.menu.kind = "list"
    /\ Len(last.menu.items) < MaxMenuLen
    /\ LET props == MenuProps(messages, m, cur)
           orig == last.menu
       IN  /\ closures' = ClosuresOf(orig, props, messageEdits)
           /\ last' = [op |-> "menu", id |-> m, props |-> props, orig |-> orig,
                       reused |-> TRUE,
                       menu |-> Augment(orig, props, messageEdits)]
    /\ UNCHANGED <<messageEdits, unpatchRender, unpatchContextMenu, globalFns,
                   installed, undoCalls, active, wrapped, messages,
                   pending, confirmed>>

PendingTotal == pending["m1"] + pending["m2"]

\* editButton.action: opens the input dialog.
EditAction ==
    /\ closures.msg # "none"
    /\ PendingTotal < MaxDialogs
    /\ pending' = [pending EXCEPT ![closures.msg] = @ + 1]
    /\ last' = [op |-> "editAction", id |-> closures.msg,
                initialValue |-> CurrentEdit(messageEdits, messages[closures.msg])]
    /\ UNCHANGED <<messageEdits, unpatchRender, unpatchContextMenu, globalFns,
                   installed, undoCalls, active, wrapped, messages,
                   closures, confirmed>>

\* removeButton.action
RemoveAction ==
    /\ closures.msg # "none"
    /\ closures.remove
    /\ messageEdits' = RemoveEdit(messageEdits, closures.msg)
    /\ confirmed' = Since(messageEdits', "none", <<>>)
    /\ last' = [op |-> "remove", id |-> closures.msg]
    /\ UNCHANGED <<unpatchRender, unpatchContextMenu, globalFns, installed,
                   undoCalls, active, wrapped, messages, closures,
                   pending>>

\* The user confirms an open dialog of message m with text t.
Confirm(m, t) ==
    /\ pending[m] > 0
    /\ pending' = [pending EXCEPT ![m] = @ - 1]
    /\ messageEdits' = OnConfirm(messageEdits, m, t)
    /\ confirmed' = Since(messageEdits', m, t)
    /\ last' = [op |-> "confirm", id |-> m, text |-> t]
    /\ UNCHANGED <<unpatchRender, unpatchContextMenu, globalFns, installed,
                   undoCalls, active, wrapped, messages, closures>>

\* A dismissal that calls onConfirm with the empty text.
DismissConfirmsEmpty(m) ==
    /\ pending[m] > 0
    /\ pending' = [pending EXCEPT ![m] = @ - 1]
    /\ messageEdits' = OnConfirm(messageEdits, m, <<>>)
    /\ confirmed' = Since(messageEdits', "none", <<>>)
    /\ last' = [op |-> "dismiss", id |-> m]
    /\ UNCHANGED <<unpatchRender, unpatchContextMenu, globalFns, installed,
                   undoCalls, active, wrapped, messages, closures>>

\* The user dismisses an open dialog of message m: onConfirm is not called.
Dismiss(m) ==
    /\ pending[m] > 0
    /\ pending' = [pending EXCEPT ![m] = @ - 1]
    /\ last' = [op |-> "dismiss", id |-> m]
    /\ UNCHANGED <<messageEdits, unpatchRender, unpatchContextMenu, globalFns,
                   installed, undoCalls, active, wrapped, messages,
                   closures, confirmed>>

\* global.showLocalEdits()
ShowLocalEdits ==
    /\ "showLocalEdits" \in globalFns
    /\ last' = [op |-> "showLocalEdits", editCount |-> EditCount(messageEdits),
                returned |-> messageEdits]
    /\ UNCHANGED <<messageEdits, unpatchRender, unpatchContextMenu, globalFns,
                   installed, undoCalls, active, wrapped, messages,
                   closures, pending, confirmed>>

\* global.clearAllEdits()
ClearAllEdits ==
    /\ "clearAllEdits" \in globalFns
    /\ messageEdits' = ClearAll(messageEdits)
    /\ confirmed' = Since(messageEdits', "none", <<>>)
    /\ last' = [op |-> "clearAllEdits", deleted |-> DOMAIN messageEdits]
    /\ UNCHANGED <<unpatchRender, unpatchContextMenu, globalFns, installed,
                   undoCalls, active, wrapped, messages, closures,
                   pending>>

Next ==
    \/ \E renderFound \in BOOLEAN, menuFound \in BOOLEAN :
          OnLoad(renderFound, menuFound)
    \/ \E m \in MsgIds \cup {"none"} : Render(m)
    \/ OpenContextMenuLazy
    \/ \E m \in MsgIds \cup {"none"}, cur \in Viewers, orig \in OrigMenus :
          MenuWrapper(m, cur, orig)
    \/ \E m \in MsgIds \cup {"none"}, cur \in Viewers : MenuWrapperReused(m, cur)
    \/ EditAction
    \/ RemoveAction
    \/ \E m \in MsgIds, t \in Texts : Confirm(m, t)
    \/ \E m \in MsgIds : Dismiss(m)
    \/ ShowLocalEdits
    \/ ClearAllEdits
    \/ OnUnload

Spec == Init /\ [][Next]_vars

\* ------------------------------------------------------------- claims
\* What a render saw as the message's content.
RenderedContent == last.props.message[1].content

\* C1: in every reachable state no key of the store maps to an empty or
\* white-space-only text.
C1_NoBlankEntry ==
    \A k \in DOMAIN messageEdits : Trim(messageEdits[k]) # <<>>

\* C1 witness: a white-space-only text was just confirmed for a message and
\* is not in the store, while the store holds the other message's override.
C1_Witness ==
    /\ last.op = "confirm"
    /\ last.text = <<" ">>
    /\ last.id \notin DOMAIN messageEdits
    /\ DOMAIN messageEdits # {}

\* C2: right after a confirmation with a text whose trimmed form is not
\* empty, the store returns that text for the message, untrimmed.
C2_SetThenGet ==
    (last.op = "confirm" /\ Trim(last.text) # <<>>)
        => Get(messageEdits, last.id) = <<last.text>>

\* C2 witness: a text with trailing white space was confirmed and is stored
\* as entered.
C2_Witness ==
    /\ last.op = "confirm"
    /\ last.text = <<"a", " ">>
    /\ Get(messageEdits, last.id) = <<last.text>>

\* C3: a confirmation with an empty or white-space-only text leaves the store
\* as the remove action for that message would: the entry is gone, the rest
\* is as before.
C3_BlankConfirmIsRemove ==
    [][(last'.op = "confirm" /\ Trim(last'.text) = <<>>)
          => /\ messageEdits' = RemoveEdit(messageEdits, last'.id)
             /\ Get(messageEdits', last'.id) = <<>>]_vars

\* C3 witness: a white-space-only text was confirmed for a message that had
\* an override when its menu was built, and the entry is absent.
C3_Witness ==
    /\ last.op = "confirm"
    /\ last.text = <<" ">>
    /\ closures.msg = last.id
    /\ closures.remove
    /\ Get(messageEdits, last.id) = <<>>

C5_RenderOriginal ==
    (last.op = "render" /\ last.id # "none" /\ ~HasEdit(messageEdits, last.id))
        => RenderedContent = HostMessages[last.id].content

\* C5 witness: the interceptor is in place, the message had an override when
\* its menu was built, the override is gone, and the render shows the
\* original.
C5_Witness ==
    /\ last.op = "render"
    /\ last.id # "none"
    /\ RenderInstalled
    /\ closures.msg = last.id
    /\ closures.remove
    /\ ~HasEdit(messageEdits, last.id)
    /\ RenderedContent = HostMessages[last.id].content

\* C6 as stated: after a confirmation with a non-blank text t, and until the
\* entry changes, every render of the message shows t.
C6_Original ==
    (last.op = "render" /\ last.id # "none" /\ confirmed[last.id] # <<>>)
        => RenderedContent = confirmed[last.id][1]

\* C6 amended: after a confirmation with a non-blank text t, and until the
\* entry changes, every render of the message made while the render
\* interceptor is in place shows t.
C6_RenderShowsConfirmed ==
    (last.op = "render" /\ last.id # "none" /\ confirmed[last.id] # <<>>
        /\ RenderInstalled)
        => RenderedContent = confirmed[last.id][1]

\* C6 witness: a render through the interceptor shows the confirmed text.
C6_Witness ==
    /\ last.op = "render"
    /\ last.id # "none"
    /\ RenderInstalled
    /\ confirmed[last.id] = <<<<"a", " ">>>>
    /\ RenderedContent = <<"a", " ">>

\* The actions a menu for message id should gain.
ExpectedActions(id) ==
    IF HasEdit(messageEdits, id)
    THEN <<[id |-> "edit-locally", label |-> "Edit Local Copy"],
           [id |-> "remove-local-edit", label |-> "Remove Local Edit"]>>
    ELSE <<[id |-> "edit-locally", label |-> "Edit Locally"]>>

\* C7 as stated: a menu built for a message of another author gains exactly
\* "Edit Locally" when the message has no override and exactly "Edit Local
\* Copy", "Remove Local Edit" when it has one, whatever children the original
\* menu has.
C7_AppendsActions ==
    (last.op = "menu" /\ last.id # "none"
        /\ last.props.message[1].author.id # last.props.currentUserId)
        => last.menu.items = last.orig.items \o ExpectedActions(last.id)

\* C8: a menu built with no message, or for a message whose author is the
\* viewer, is the original builder's menu: nothing is appended, whether or
\* not the message has an override.
C8_NoActionsOnOwn ==
    (last.op = "menu"
        /\ (last.id = "none"
            \/ last.props.message[1].author.id = last.props.currentUserId))
        => /\ last.menu = last.orig
           /\ closures = NoClosures

\* C8 witness: a menu was built for the viewer's own message while the
\* message has an override, and it is the original menu.
C8_Witness ==
    /\ last.op = "menu"
    /\ last.id # "none"
    /\ last.props.message[1].author.id = last.props.currentUserId
    /\ HasEdit(messageEdits, last.id)
    /\ last.orig.kind = "list"
    /\ last.menu = last.orig

\* C9 as stated: whichever targets are missing, activation completes: each
\* interceptor whose target was found is installed and both debug functions
\* are registered.
C9_ActivationCompletes ==
    last.op = "onLoad"
        => /\ {"showLocalEdits", "clearAllEdits"} \subseteq globalFns
           /\ last.renderFound => RenderInstalled
           /\ last.menuFound => MenuInstalled

\* C10: right after onUnload the store is empty, neither debug function is
\* on the global object and no undo-handle is stored.
C10_AfterUnload ==
    last.op = "onUnload"
        => /\ EditCount(messageEdits) = 0
           /\ globalFns \cap {"showLocalEdits", "clearAllEdits"} = {}
           /\ unpatchRender = <<>>
           /\ unpatchContextMenu = <<>>

\* C10 witness: onUnload ran after both patches had been installed and an
\* override had been stored: both handles were invoked, the store is empty.
C10_Witness ==
    /\ last.op = "onUnload"
    /\ undoCalls["render"] = 1
    /\ undoCalls["menu"] = 1
    /\ closures.remove
    /\ messageEdits = EmptyStore

\* C11: right after clearAllEdits the store has no key, whatever it held;
\* and the count showLocalEdits logs is the number of keys in the store, and
\* what it returns is the store.
C11_ClearAndCount ==
    /\ last.op = "clearAllEdits" => Cardinality(DOMAIN messageEdits) = 0
    /\ last.op = "showLocalEdits"
          => /\ last.editCount = Cardinality(DOMAIN messageEdits)
             /\ last.returned = messageEdits

\* C11 witness: clearAllEdits ran on a store holding both overrides.
C11_Witness ==
    /\ last.op = "clearAllEdits"
    /\ last.deleted = {"m1", "m2"}
    /\ messageEdits = EmptyStore

\* C12 as stated: while the plugin is inactive the store is empty, so every
\* activation begins with an empty store, whatever callbacks arrive in
\* between.
C12_EmptyWhileInactive ==
    ~active => messageEdits = EmptyStore

\* C13: no undo-handle is invoked more than once; a handle is invoked only
\* by an onUnload that finds it stored; an onUnload that follows an onUnload
\* invokes none; and after onUnload no interceptor is in place.
C13_HandlesOnce ==
    [][/\ \A h \in Handles :
             /\ undoCalls'[h] <= 1
             /\ undoCalls'[h] > undoCalls[h]
                   => /\ last'.op = "onUnload"
                      /\ h \in Invoked(unpatchRender, unpatchContextMenu)
       /\ (last.op = "onUnload" /\ last'.op = "onUnload")
             => undoCalls' = undoCalls
       /\ last'.op = "onUnload" => installed' = {}]_vars

\* C13 witness: onUnload ran after an activation that failed at the menu
\* lookup: the render handle was invoked once, the menu handle, never stored,
\* was not, and nothing is left in place.
C13_Witness ==
    /\ last.op = "onUnload"
    /\ undoCalls["render"] = 1
    /\ undoCalls["menu"] = 0
    /\ globalFns = {}
    /\ installed = {}
    /\ unpatchRender = <<>>

\* C14: the store changes only in a step that is a dialog confirmation, a
\* remove action, clearAllEdits or onUnload: a render, a menu construction,
\* opening the dialog, dismissing it and showLocalEdits leave it as it was.
C14_StoreFrame ==
    [][messageEdits' # messageEdits
          => last'.op \in {"confirm", "remove", "clearAllEdits", "onUnload"}]_vars

\* C14 witness: a dialog was dismissed for a message that has an override,
\* and the override is still there.
C14_Witness ==
    /\ last.op = "dismiss"
    /\ HasEdit(messageEdits, last.id)
    /\ confirmed[last.id] = <<messageEdits[last.id]>>

\* C15: whatever dialogs and remove actions are pending for a message, the
\* entry of the message right after one of these callbacks ran is the one
\* that callback alone determines: the confirmed text when it is not blank,
\* absent after a blank confirmation or a remove.
C15_LastWriterWins ==
    /\ last.op = "confirm"
          => Get(messageEdits, last.id)
               = (IF Trim(last.text) = <<>> THEN <<>> ELSE <<last.text>>)
    /\ last.op = "remove" => Get(messageEdits, last.id) = <<>>

\* C15 witness: a confirmation ran for a message that already had an
\* override when its menu was built, while another dialog and the remove
\* action for the same message are still pending; the entry is its text.
C15_Witness ==
    /\ last.op = "confirm"
    /\ last.text = <<" ", "a">>
    /\ pending[last.id] >= 1
    /\ closures.msg = last.id
    /\ closures.remove
    /\ Get(messageEdits, last.id) = <<last.text>>

\* C16: the dialog the edit action opens is pre-filled with the override the
\* message has when the action is triggered, and with the message's original
\* content when it has none then, whatever the store held when the menu was
\* built.
C16_PrefillAtTrigger ==
    last.op = "editAction"
        => last.initialValue
             = (IF last.id \in DOMAIN messageEdits
                THEN messageEdits[last.id]
                ELSE HostMessages[last.id].content)

\* C16 witness: the menu was built while the message had no override, the
\* store got one before the action was triggered, and the dialog shows it.
C16_Witness ==
    /\ last.op = "editAction"
    /\ closures.msg = last.id
    /\ ~closures.remove
    /\ last.id \in DOMAIN messageEdits
    /\ last.initialValue = messageEdits[last.id]

\* The actions of a menu that are not the host's own entries.
Appended(menu) ==
    SelectSeq(menu.items, LAMBDA x : x.id \in {"edit-locally", "remove-local-edit"})

\* C17 as stated: when the menu is built twice in a row for the same message
\* and viewer by the same original builder, the second menu carries the
\* actions the first carries and no more.
C17_NoAccumulation ==
    [][(last.op = "menu" /\ last'.op = "menu"
          /\ last'.props = last.props
          /\ (last'.reused \/ last'.orig = last.orig))
          => Appended(last'.menu) = Appended(last.menu)]_vars

\* C18: a dialog confirmation or a remove action for a message leaves the
\* entry of every other message id as it was.
C18_OtherEntriesKept ==
    [][last'.op \in {"confirm", "remove"}
          => \A k \in MsgIds \ {last'.id} :
                Get(messageEdits', k) = Get(messageEdits, k)]_vars

\* C18 witness: the override of m1 was removed and m2 still has its own.
C18_Witness ==
    /\ last.op = "remove"
    /\ last.id = "m1"
    /\ Get(messageEdits, "m1") = <<>>
    /\ Get(messageEdits, "m2") = <<<<"a", " ">>>>

====
